---- MODULE Spec2Model ----
(***************************************************************************)
(* A model of src/wireviz/wv_utils.py: expand, parse_number_and_unit,      *)
(* smart_file_resolve, bom2tsv and the AWG / mm2 lookup tables.            *)
(*                                                                         *)
(* Python strings are modelled as sequences of one-character strings, so   *)
(* that str(), int(), float(), str.split and str.join are computed and not *)
(* assumed.  Python values are tagged records.                             *)
(***************************************************************************)
EXTENDS Integers, Sequences, FiniteSets, TLC

(***************************************************************************)
(* Bounds of the model.                                                    *)
(***************************************************************************)
MaxLen == 4
MaxNum == 3
MaxList == 3
MaxPaths == 2
MaxRows == 1
MaxCols == 2
MaxCalls == 2
MaxChain == 2

(***************************************************************************)
(* The state: the arguments, locals and result of each function under      *)
(* call, and what outlives a call (the caller's list inp, the files fs).   *)
(***************************************************************************)
VARIABLES yaml_data, items, idx, output, expand_pc, expand_result, first_result, runs
VARIABLES pnu_inp, default_unit, pnu_pc, pnu_result
VARIABLES fs, filename, possible_paths, candidates, probe, resolve_pc, resolve_result
VARIABLES inp, original_rows, headers_passed, tsv
VARIABLES gauge_in, chain, applied

expandVars == <<yaml_data, items, idx, output, expand_pc, expand_result, first_result, runs>>
pnuVars == <<pnu_inp, default_unit, pnu_pc, pnu_result>>
resolveVars == <<fs, filename, possible_paths, candidates, probe, resolve_pc, resolve_result>>
bomVars == <<inp, original_rows, headers_passed, tsv>>
awgVars == <<gauge_in, chain, applied>>

vars == <<expandVars, pnuVars, resolveVars, bomVars, awgVars>>

notExpand == <<pnuVars, resolveVars, bomVars, awgVars>>
notParse == <<expandVars, resolveVars, bomVars, awgVars>>
notResolve == <<expandVars, pnuVars, bomVars, awgVars>>
notBom == <<expandVars, pnuVars, resolveVars, awgVars>>
notAwg == <<expandVars, pnuVars, resolveVars, bomVars>>

(***************************************************************************)
(* Python values.                                                          *)
(***************************************************************************)
NoneVal == [t |-> "none"]
IntVal(n) == [t |-> "int", n |-> n]
StrVal(s) == [t |-> "str", s |-> s]
ListVal(xs) == [t |-> "list", items |-> xs]

StringsUpTo(alphabet, n) == UNION {[1..k -> alphabet] : k \in 0..n}

(***************************************************************************)
(* str(int): decimal digits, "-" in front of a negative number.            *)
(***************************************************************************)
DigitChar(d) == <<"0", "1", "2", "3", "4", "5", "6", "7", "8", "9">>[d + 1]

RECURSIVE NatToStr(_)
NatToStr(n) == IF n < 10 THEN <<DigitChar(n)>>
               ELSE Append(NatToStr(n \div 10), DigitChar(n % 10))

IntToStr(n) == IF n < 0 THEN <<"-">> \o NatToStr(-n) ELSE NatToStr(n)

\* str(float) in positional notation: at least one digit on each side of the point
RECURSIVE PadZeros(_, _)
PadZeros(s, n) == IF Len(s) >= n THEN s ELSE PadZeros(<<"0">> \o s, n)

FloatToStr(m, d) ==
    LET digits == PadZeros(NatToStr(IF m < 0 THEN 0 - m ELSE m), d + 1)
        whole == SubSeq(digits, 1, Len(digits) - d)
        frac == IF d = 0 THEN <<"0">> ELSE SubSeq(digits, Len(digits) - d + 1, Len(digits))
    IN  (IF m < 0 THEN <<"-">> ELSE <<>>) \o whole \o <<".">> \o frac

PyStr(v) == IF v.t = "int" THEN IntToStr(v.n)
            ELSE IF v.t = "float" THEN FloatToStr(v.m, v.d)
            ELSE v.s

(***************************************************************************)
(* int(str): surrounding whitespace is stripped, one sign is allowed, then *)
(* digits, with single underscores between digits.  ok = FALSE stands for  *)
(* the ValueError int() raises.                                            *)
(***************************************************************************)
IsSpace(c) == c \in {" ", "\t", "\n"}

IsDigit(c) == c \in {"0", "1", "2", "3", "4", "5", "6", "7", "8", "9"}

DigitVal(c) == CHOOSE d \in 0..9 : DigitChar(d) = c

RECURSIVE LStrip(_)
LStrip(s) == IF s # <<>> /\ IsSpace(Head(s)) THEN LStrip(Tail(s)) ELSE s

RECURSIVE RStrip(_)
RStrip(s) == IF s # <<>> /\ IsSpace(s[Len(s)])
             THEN RStrip(SubSeq(s, 1, Len(s) - 1)) ELSE s

Strip(s) == RStrip(LStrip(s))

DigitsOK(d) ==
    /\ d # <<>>
    /\ IsDigit(d[1])
    /\ IsDigit(d[Len(d)])
    /\ \A k \in 1..Len(d) : IsDigit(d[k]) \/ d[k] = "_"
    /\ \A k \in 1..(Len(d) - 1) : ~(d[k] = "_" /\ d[k + 1] = "_")

RECURSIVE DigitsValue(_, _)
DigitsValue(d, acc) ==
    IF d = <<>> THEN acc
    ELSE IF Head(d) = "_" THEN DigitsValue(Tail(d), acc)
    ELSE DigitsValue(Tail(d), 10 * acc + DigitVal(Head(d)))

Unsigned(s) == IF s # <<>> /\ Head(s) \in {"+", "-"} THEN Tail(s) ELSE s

IntParse(s) ==
    LET t == Strip(s)
        body == Unsigned(t)
    IN  IF DigitsOK(body)
        THEN [ok |-> TRUE,
              val |-> IF Head(t) = "-" THEN 0 - DigitsValue(body, 0)
                      ELSE DigitsValue(body, 0)]
        ELSE [ok |-> FALSE, val |-> 0]

(***************************************************************************)
(* "c in s" and s.split(c, 1).                                             *)
(***************************************************************************)
Contains(s, c) == \E k \in 1..Len(s) : s[k] = c

FirstIndex(s, c) == CHOOSE k \in 1..Len(s) : s[k] = c /\ \A j \in 1..(k - 1) : s[j] # c

SplitOnce(s, c) ==
    LET k == FirstIndex(s, c)
    IN  <<SubSeq(s, 1, k - 1), SubSeq(s, k + 1, Len(s))>>

(***************************************************************************)
(* expand                                                                  *)
(***************************************************************************)
\* range(a, stop) and range(a, stop, -1), each value appended to output in turn
RangeAscending(a, stop) ==
    [k \in 1..(IF stop > a THEN stop - a ELSE 0) |-> IntVal(a + (k - 1))]

RangeDescending(a, stop) ==
    [k \in 1..(IF stop < a THEN a - stop ELSE 0) |-> IntVal(a - (k - 1))]

RangeRunExclusive(a, b) ==
    IF a < b THEN RangeAscending(a, b)
    ELSE IF a > b THEN RangeDescending(a, b)
    ELSE <<IntVal(a)>>

RangeRun(a, b) ==
    IF a < b THEN RangeAscending(a, b + 1)
    ELSE IF a > b THEN RangeDescending(a, b - 1)
    ELSE <<IntVal(a)>>

\* the body of the try block of the "-" branch: raised = TRUE when int() raised
TryRange(e) ==
    LET ab == SplitOnce(e, "-")
        a == IntParse(ab[1])
        b == IntParse(ab[2])
    IN  IF a.ok /\ b.ok
        THEN [raised |-> FALSE, out |-> RangeRun(a.val, b.val)]
        ELSE [raised |-> TRUE, out |-> <<>>]

\* the body of the try block of the branch without "-"
TryInt(e) ==
    LET x == IntParse(e)
    IN  IF x.ok THEN [raised |-> FALSE, out |-> <<IntVal(x.val)>>]
        ELSE [raised |-> TRUE, out |-> <<>>]

ExceptPropagate(e, attempt) == attempt

\* both except clauses: the element is passed through as its string form
ExceptPassThrough(e, attempt) ==
    IF attempt.raised THEN [raised |-> FALSE, out |-> <<StrVal(e)>>] ELSE attempt

\* one iteration of the loop for element v
ExpandElem(v) ==
    LET e == PyStr(v)
    IN  IF Contains(e, "-")
        THEN ExceptPassThrough(e, TryRange(e))
        ELSE ExceptPassThrough(e, TryInt(e))

Wrap(yd) == IF yd.t = "list" THEN yd.items ELSE <<yd>>

ExpandStart ==
    /\ expand_pc = "call"
    /\ output' = <<>>
    /\ items' = Wrap(yaml_data)
    /\ idx' = 1
    /\ expand_pc' = "loop"
    /\ UNCHANGED <<yaml_data, expand_result, first_result, runs>>
    /\ UNCHANGED notExpand

ExpandIterPrepend ==
    /\ expand_pc = "loop"
    /\ idx <= Len(items)
    /\ LET r == ExpandElem(items[idx])
       IN  IF r.raised
           THEN /\ expand_pc' = "raised"
                /\ UNCHANGED <<output, idx>>
           ELSE /\ output' = r.out \o output
                /\ idx' = idx + 1
                /\ expand_pc' = "loop"
    /\ UNCHANGED <<yaml_data, items, expand_result, first_result, runs>>
    /\ UNCHANGED notExpand

ExpandIter ==
    /\ expand_pc = "loop"
    /\ idx <= Len(items)
    /\ LET r == ExpandElem(items[idx])
       IN  IF r.raised
           THEN /\ expand_pc' = "raised"
                /\ UNCHANGED <<output, idx>>
           ELSE /\ output' = output \o r.out
                /\ idx' = idx + 1
                /\ expand_pc' = "loop"
    /\ UNCHANGED <<yaml_data, items, expand_result, first_result, runs>>
    /\ UNCHANGED notExpand

ExpandReturn ==
    /\ expand_pc = "loop"
    /\ idx > Len(items)
    /\ expand_result' = ListVal(output)
    /\ expand_pc' = "done"
    /\ UNCHANGED <<yaml_data, items, idx, output, first_result, runs>>
    /\ UNCHANGED notExpand

\* the caller runs expand again on the list the first run returned
ExpandAgain ==
    /\ expand_pc = "done"
    /\ runs = 1
    /\ first_result' = expand_result
    /\ yaml_data' = expand_result
    /\ runs' = 2
    /\ expand_pc' = "call"
    /\ UNCHANGED <<items, idx, output, expand_result>>
    /\ UNCHANGED notExpand

ScalarAlphabet == {"0", "1", "-", "+", " ", "X"}

ScalarInputs == {StrVal(s) : s \in StringsUpTo(ScalarAlphabet, MaxLen)}
                \cup {IntVal(n) : n \in (0 - MaxNum)..MaxNum}

ListElems == {StrVal(<<"1", "-", "3">>), StrVal(<<"3", "-", "1">>), StrVal(<<"2", "-", "2">>),
              StrVal(<<"X">>), StrVal(<<"-", "5">>), StrVal(<<"0", "-", "-", "1">>),
              StrVal(<<"A", "-", "B">>), IntVal(2), IntVal(-1)}

ListInputs == {ListVal(xs) : xs \in UNION {[1..k -> ListElems] : k \in 0..MaxList}}

ExpandInit ==
    /\ yaml_data \in ScalarInputs \cup ListInputs
    /\ items = <<>>
    /\ idx = 0
    /\ output = <<>>
    /\ expand_pc = "call"
    /\ expand_result = NoneVal
    /\ first_result = NoneVal
    /\ runs = 1

ExpandNext == ExpandStart \/ ExpandIter \/ ExpandReturn \/ ExpandAgain

(***************************************************************************)
(* Properties of expand                                                    *)
(***************************************************************************)
Abs(n) == IF n < 0 THEN 0 - n ELSE n

HasDash(v) == Contains(PyStr(v), "-")

LeftPart(v) == IntParse(SplitOnce(PyStr(v), "-")[1])

RightPart(v) == IntParse(SplitOnce(PyStr(v), "-")[2])

BothParse(v) == HasDash(v) /\ LeftPart(v).ok /\ RightPart(v).ok

Iterating == expand_pc = "loop" /\ idx <= Len(items)

\* what the step appended to output
Emitted == SubSeq(output', Len(output) + 1, Len(output'))

KeepsPrefix == Len(output') >= Len(output) /\ SubSeq(output', 1, Len(output)) = output

\* C1: an element "A-B" whose two parts around the first "-" both parse as
\* integers emits exactly the inclusive run from A to B, ascending when A < B,
\* descending when A > B, the single value A when A = B: |A-B|+1 values, never none.
C1_InclusiveRun ==
    [][(Iterating /\ BothParse(items[idx])) =>
        LET a == LeftPart(items[idx]).val
            b == RightPart(items[idx]).val
        IN  /\ expand_pc' = "loop"
            /\ KeepsPrefix
            /\ Len(Emitted) = Abs(a - b) + 1
            /\ Len(Emitted) >= 1
            /\ \A k \in 1..Len(Emitted) :
                  Emitted[k] = IntVal(IF a <= b THEN a + (k - 1) ELSE a - (k - 1))]_expandVars

\* a descending run over negative numbers has been emitted: "1--2" gave 1, 0, -1, -2
C1_Witness ==
    /\ expand_pc = "loop"
    /\ idx = 2
    /\ BothParse(items[1])
    /\ LeftPart(items[1]).val > RightPart(items[1]).val
    /\ RightPart(items[1]).val < 0
    /\ Len(output) = LeftPart(items[1]).val - RightPart(items[1]).val + 1

RECURSIVE ConcatResults(_)
ConcatResults(xs) == IF xs = <<>> THEN <<>>
                     ELSE ExpandElem(Head(xs)).out \o ConcatResults(Tail(xs))

AsList(yd) == IF yd.t = "list" THEN yd.items ELSE <<yd>>

\* C2: the output is the concatenation, in input order, of the per-element
\* results (a scalar counts as a one-element list); nothing is sorted and
\* nothing is deduplicated.
C2_ConcatInOrder ==
    /\ expand_pc = "loop" =>
          output = ConcatResults(SubSeq(AsList(yaml_data), 1, idx - 1))
    /\ expand_pc = "done" =>
          expand_result = ListVal(ConcatResults(AsList(yaml_data)))

\* ["3-1", 2] has given [3, 2, 1, 2]: unsorted, and the value 2 twice
C2_Witness ==
    /\ expand_pc = "done"
    /\ yaml_data = ListVal(<<StrVal(<<"3", "-", "1">>), IntVal(2)>>)
    /\ expand_result = ListVal(<<IntVal(3), IntVal(2), IntVal(1), IntVal(2)>>)

PassThroughStep ==
    Iterating =>
        LET v == items[idx]
            e == PyStr(v)
        IN  /\ expand_pc' = "loop"
            /\ KeepsPrefix
            /\ (HasDash(v) /\ ~BothParse(v)) => Emitted = <<StrVal(e)>>
            /\ (~HasDash(v) /\ IntParse(e).ok) => Emitted = <<IntVal(IntParse(e).val)>>
            /\ (~HasDash(v) /\ ~IntParse(e).ok) => Emitted = <<StrVal(e)>>

\* C3: expand never fails and returns a list; an element with "-" whose parts
\* around the first "-" are not both integers is emitted as the original
\* string (so expand("-5") = ["-5"]); an element without "-" is emitted as an
\* integer if it parses as one and as the original string otherwise.
C3_NeverFails ==
    /\ [](expand_pc # "raised")
    /\ [](expand_pc = "done" => expand_result.t = "list")
    /\ []((expand_pc = "done" /\ yaml_data = StrVal(<<"-", "5">>))
            => expand_result = ListVal(<<StrVal(<<"-", "5">>)>>))
    /\ [][PassThroughStep]_expandVars

\* a scalar with "-" that is no range has been returned as the one string it was
C3_Witness ==
    /\ expand_pc = "done"
    /\ yaml_data.t = "str"
    /\ HasDash(yaml_data)
    /\ ~BothParse(yaml_data)
    /\ expand_result = ListVal(<<yaml_data>>)

\* C4: running expand on its own output returns that output unchanged
C4_Idempotent ==
    (expand_pc = "done" /\ runs = 2) => expand_result = first_result

(***************************************************************************)
(* parse_number_and_unit                                                   *)
(***************************************************************************)
\* a float with the value m / 10^d, m not a multiple of 10 unless d = 0
FloatVal(m, d) == [t |-> "float", m |-> m, d |-> d]

\* NumberAndUnit(number, unit)
NumberAndUnit(number, unit) == [t |-> "pair", number |-> number, unit |-> unit]

\* the Exception raised for quantity; its message starts with quantity
InvalidInput(quantity) == [t |-> "exception", inp |-> quantity]

RECURSIVE CountDigits(_)
CountDigits(s) == IF s = <<>> THEN 0
                  ELSE (IF IsDigit(Head(s)) THEN 1 ELSE 0) + CountDigits(Tail(s))

RECURSIVE Normalize(_, _)
Normalize(m, d) == IF d > 0 /\ m % 10 = 0 THEN Normalize(m \div 10, d - 1)
                   ELSE FloatVal(m, d)

\* float(str) for decimal notation: whitespace stripped, one sign, digits with
\* an optional point (no exponent, inf or nan: their letters are in no input)
FloatParse(s) ==
    LET t == Strip(s)
        body == Unsigned(t)
        dotted == Contains(body, ".")
        ip == IF dotted THEN SplitOnce(body, ".")[1] ELSE body
        fp == IF dotted THEN SplitOnce(body, ".")[2] ELSE <<>>
        wellFormed == /\ ip # <<>> \/ fp # <<>>
                      /\ ip = <<>> \/ DigitsOK(ip)
                      /\ fp = <<>> \/ DigitsOK(fp)
        mag == Normalize(DigitsValue(ip \o fp, 0), CountDigits(fp))
    IN  IF wellFormed
        THEN [ok |-> TRUE,
              val |-> IF Head(t) = "-" THEN FloatVal(0 - mag.m, mag.d) ELSE mag]
        ELSE [ok |-> FALSE, val |-> FloatVal(0, 0)]

ParseNumberFloatFirst(num_str) ==
    IF FloatParse(num_str).ok
    THEN [raised |-> FALSE, number |-> FloatParse(num_str).val]
    ELSE [raised |-> TRUE, number |-> NoneVal]

ParseNumberIntOnly(num_str) ==
    IF IntParse(num_str).ok
    THEN [raised |-> FALSE, number |-> IntVal(IntParse(num_str).val)]
    ELSE [raised |-> TRUE, number |-> NoneVal]

\* int(num_str), on ValueError float(num_str), on ValueError raise
ParseNumber(num_str) ==
    IF IntParse(num_str).ok
    THEN [raised |-> FALSE, number |-> IntVal(IntParse(num_str).val)]
    ELSE IF FloatParse(num_str).ok
    THEN [raised |-> FALSE, number |-> FloatParse(num_str).val]
    ELSE [raised |-> TRUE, number |-> NoneVal]

NonStringDefaultUnit(quantity, unit) ==
    IF quantity.t = "none" THEN [raised |-> FALSE, value |-> NoneVal]
    ELSE IF quantity.t = "pair"
    THEN [raised |-> FALSE, value |-> NumberAndUnit(quantity.number, unit)]
    ELSE IF quantity.t \in {"float", "int"}
    THEN [raised |-> FALSE, value |-> NumberAndUnit(quantity, unit)]
    ELSE [raised |-> FALSE, value |-> NoneVal]

\* the branches for None, NumberAndUnit, float and int; any other type that
\* is not str falls off the end of the function, which returns None
NonString(quantity, unit) ==
    IF quantity.t = "none" THEN [raised |-> FALSE, value |-> NoneVal]
    ELSE IF quantity.t = "pair" THEN [raised |-> FALSE, value |-> quantity]
    ELSE IF quantity.t \in {"float", "int"}
    THEN [raised |-> FALSE, value |-> NumberAndUnit(quantity, unit)]
    ELSE [raised |-> FALSE, value |-> NoneVal]

parse_number_and_unit(quantity, unit) ==
    IF quantity.t = "str"
    THEN LET spaced == Contains(quantity.s, " ")
             num_str == IF spaced THEN SplitOnce(quantity.s, " ")[1] ELSE quantity.s
             u == IF spaced THEN StrVal(SplitOnce(quantity.s, " ")[2]) ELSE unit
             n == ParseNumber(num_str)
         IN  IF n.raised THEN [raised |-> TRUE, value |-> InvalidInput(quantity)]
             ELSE [raised |-> FALSE, value |-> NumberAndUnit(n.number, u)]
    ELSE NonString(quantity, unit)

ParseCall ==
    /\ pnu_pc = "call"
    /\ LET r == parse_number_and_unit(pnu_inp, default_unit)
       IN  /\ pnu_result' = r.value
           /\ pnu_pc' = IF r.raised THEN "raised" ELSE "returned"
    /\ UNCHANGED <<pnu_inp, default_unit>>
    /\ UNCHANGED notParse

QuantityAlphabet == {"0", "5", ".", "-", " ", "m"}

Units == {NoneVal, StrVal(<<"m", "m">>), StrVal(<<"V">>)}

Numbers == {IntVal(n) : n \in (0 - MaxNum)..MaxNum}
           \cup {FloatVal(m, 1) : m \in {32, -5}}

QuantityInputs ==
    {NoneVal, ListVal(<<>>)}
    \cup Numbers
    \cup {NumberAndUnit(n, u) : n \in Numbers, u \in Units}
    \cup {StrVal(s) : s \in StringsUpTo(QuantityAlphabet, MaxLen)}

ParseInit ==
    /\ pnu_inp \in QuantityInputs
    /\ default_unit \in Units
    /\ pnu_pc = "call"
    /\ pnu_result = NoneVal

ParseNext == ParseCall

(***************************************************************************)
(* Properties of parse_number_and_unit                                     *)
(***************************************************************************)
\* C5: None gives None whatever the default unit; a NumberAndUnit is returned
\* unchanged, its unit not replaced by the default; a bare int or float n
\* gives (n, default_unit).
C5_NonStringInput ==
    pnu_pc # "call" =>
        /\ pnu_inp.t = "none" => (pnu_pc = "returned" /\ pnu_result = NoneVal)
        /\ pnu_inp.t = "pair" => (pnu_pc = "returned" /\ pnu_result = pnu_inp)
        /\ pnu_inp.t \in {"int", "float"} =>
              /\ pnu_pc = "returned"
              /\ pnu_result.t = "pair"
              /\ pnu_result.number = pnu_inp
              /\ pnu_result.unit = default_unit

\* a pair has been returned with its own unit although another default was given
C5_Witness ==
    /\ pnu_pc = "returned"
    /\ pnu_inp.t = "pair"
    /\ pnu_inp.unit # default_unit
    /\ pnu_result = pnu_inp

\* s has a first space at k, or none (k = 0)
FirstSpace(s, k) ==
    IF k = 0 THEN \A j \in 1..Len(s) : s[j] # " "
    ELSE k \in 1..Len(s) /\ s[k] = " " /\ \A j \in 1..(k - 1) : s[j] # " "

\* C6: with a space in the string, the numeric token is what precedes the first
\* space and the unit is everything after it (the default is ignored); without
\* one the whole string is the token and the default unit applies.  The token
\* is parsed as an integer first and as a float only if that fails.
C6_StringInput ==
    (pnu_pc = "returned" /\ pnu_inp.t = "str") =>
        \E k \in 0..Len(pnu_inp.s) :
            /\ FirstSpace(pnu_inp.s, k)
            /\ LET s == pnu_inp.s
                   token == IF k = 0 THEN s ELSE SubSeq(s, 1, k - 1)
               IN  /\ pnu_result.t = "pair"
                   /\ pnu_result.unit = IF k = 0 THEN default_unit
                                        ELSE StrVal(SubSeq(s, k + 1, Len(s)))
                   /\ IF IntParse(token).ok
                      THEN pnu_result.number = IntVal(IntParse(token).val)
                      ELSE /\ FloatParse(token).ok
                           /\ pnu_result.number = FloatParse(token).val

\* "5 mm" has given (5, "mm") with an integer 5 although the default was "V"
C6_Witness ==
    /\ pnu_pc = "returned"
    /\ pnu_inp = StrVal(<<"5", " ", "m", "m">>)
    /\ default_unit = StrVal(<<"V">>)
    /\ pnu_result = NumberAndUnit(IntVal(5), StrVal(<<"m", "m">>))

NumericToken(s) == IF Contains(s, " ") THEN SplitOnce(s, " ")[1] ELSE s

\* C7: the call raises, with an error carrying the input, exactly when the
\* input is a string whose numeric token parses neither as an integer nor as a
\* float; every other input returns.
C7_RaisesExactlyWhen ==
    pnu_pc # "call" =>
        /\ pnu_pc = "raised" <=>
              /\ pnu_inp.t = "str"
              /\ ~IntParse(NumericToken(pnu_inp.s)).ok
              /\ ~FloatParse(NumericToken(pnu_inp.s)).ok
        /\ pnu_pc = "raised" => pnu_result = InvalidInput(pnu_inp)
        /\ pnu_pc = "returned" => pnu_result.t \in {"none", "pair"}

\* a string starting with a space, whose token is empty, has raised
C7_Witness ==
    /\ pnu_pc = "raised"
    /\ pnu_inp.t = "str"
    /\ Len(pnu_inp.s) >= 2
    /\ pnu_inp.s[1] = " "
    /\ IntParse(SubSeq(pnu_inp.s, 2, Len(pnu_inp.s))).ok
    /\ pnu_result.inp = pnu_inp

(***************************************************************************)
(* smart_file_resolve                                                      *)
(*                                                                         *)
(* A path is absolute or relative and has a sequence of components; ".."   *)
(* is a component.  The file system is the set fs of the files that exist, *)
(* each an absolute sequence of components; there are no symbolic links.   *)
(***************************************************************************)
PathVal(abs, parts) == [t |-> "path", abs |-> abs, parts |-> parts]

\* the working directory of the process
Cwd == <<"w">>

IsPrefix(p, q) == Len(p) <= Len(q) /\ SubSeq(q, 1, Len(p)) = p

IsDir(parts) == IsPrefix(parts, Cwd)
                \/ \E f \in fs : Len(parts) < Len(f) /\ IsPrefix(parts, f)

\* the operating system's lookup of an absolute path, one component at a time
RECURSIVE Lookup(_, _)
Lookup(cur, rest) ==
    IF rest = <<>> THEN cur \in fs \/ IsDir(cur)
    ELSE IF ~IsDir(cur) THEN FALSE
    ELSE IF Head(rest) = ".."
    THEN Lookup(IF cur = <<>> THEN cur ELSE SubSeq(cur, 1, Len(cur) - 1), Tail(rest))
    ELSE Lookup(Append(cur, Head(rest)), Tail(rest))

\* Path.exists()
Exists(p) == Lookup(<<>>, IF p.abs THEN p.parts ELSE Cwd \o p.parts)

RECURSIVE Collapse(_, _)
Collapse(done, rest) ==
    IF rest = <<>> THEN done
    ELSE IF Head(rest) = ".."
    THEN Collapse(IF done = <<>> THEN done ELSE SubSeq(done, 1, Len(done) - 1), Tail(rest))
    ELSE Collapse(Append(done, Head(rest)), Tail(rest))

\* Path.resolve(): absolute, and ".." folded into the components before it
Resolve(p) == PathVal(TRUE, Collapse(<<>>, IF p.abs THEN p.parts ELSE Cwd \o p.parts))

\* base / other
Join(base, other) == IF other.abs THEN other
                     ELSE PathVal(base.abs, base.parts \o other.parts)

WrapPaths(pp) == IF pp.t = "list" THEN pp.items ELSE <<pp>>

RECURSIVE ResolvedNotNone(_)
ResolvedNotNone(paths) ==
    IF paths = <<>> THEN <<>>
    ELSE IF Head(paths).t = "none" THEN ResolvedNotNone(Tail(paths))
    ELSE <<Resolve(Head(paths))>> \o ResolvedNotNone(Tail(paths))

RECURSIVE Reversed(_)
Reversed(xs) == IF xs = <<>> THEN <<>> ELSE Append(Reversed(Tail(xs)), Head(xs))

CandidatesLastFirst(pp) == Reversed(ResolvedNotNone(WrapPaths(pp)))

\* [Path(path).resolve() for path in possible_paths if path is not None]
Candidates(pp) == ResolvedNotNone(WrapPaths(pp))

NotFound(name, searched) == [t |-> "exception", name |-> name, searched |-> searched]

ResolveStart ==
    /\ resolve_pc = "call"
    /\ IF filename.abs
       THEN /\ resolve_pc' = IF Exists(filename) THEN "returned" ELSE "raised"
            /\ resolve_result' = IF Exists(filename) THEN filename
                                 ELSE NotFound(filename, <<>>)
            /\ UNCHANGED <<candidates, probe>>
       ELSE /\ candidates' = Candidates(possible_paths)
            /\ probe' = 1
            /\ resolve_pc' = "search"
            /\ UNCHANGED resolve_result
    /\ UNCHANGED <<fs, filename, possible_paths>>
    /\ UNCHANGED notResolve

ResolveProbe ==
    /\ resolve_pc = "search"
    /\ probe <= Len(candidates)
    /\ LET resolved_path == Resolve(Join(candidates[probe], filename))
       IN  IF Exists(resolved_path)
           THEN /\ resolve_result' = resolved_path
                /\ resolve_pc' = "returned"
                /\ UNCHANGED probe
           ELSE /\ probe' = probe + 1
                /\ UNCHANGED <<resolve_result, resolve_pc>>
    /\ UNCHANGED <<fs, filename, possible_paths, candidates>>
    /\ UNCHANGED notResolve

ResolveNotFound ==
    /\ resolve_pc = "search"
    /\ probe > Len(candidates)
    /\ resolve_result' = NotFound(filename, candidates)
    /\ resolve_pc' = "raised"
    /\ UNCHANGED <<fs, filename, possible_paths, candidates, probe>>
    /\ UNCHANGED notResolve

Files == {<<"a", "f">>, <<"b", "f">>, <<"f">>, <<"w", "f">>, <<"w", "a", "f">>}

Filenames == {PathVal(FALSE, <<"f">>), PathVal(FALSE, <<"a", "f">>),
              PathVal(FALSE, <<"..", "f">>), PathVal(TRUE, <<"a", "f">>),
              PathVal(TRUE, <<"f">>), PathVal(TRUE, <<"a", "..", "f">>)}

PathEntries == {NoneVal, PathVal(TRUE, <<"a">>), PathVal(TRUE, <<"b">>),
                PathVal(FALSE, <<"a">>), PathVal(FALSE, <<"..">>)}

ResolveInit ==
    /\ fs \in SUBSET Files
    /\ filename \in Filenames
    /\ possible_paths \in PathEntries
                          \cup {ListVal(ps) : ps \in UNION {[1..k -> PathEntries] : k \in 0..MaxPaths}}
    /\ candidates = <<>>
    /\ probe = 0
    /\ resolve_pc = "call"
    /\ resolve_result = NoneVal

ResolveNext == ResolveStart \/ ResolveProbe \/ ResolveNotFound

(***************************************************************************)
(* Properties of smart_file_resolve                                        *)
(***************************************************************************)
Entries == IF possible_paths.t = "list" THEN possible_paths.items ELSE <<possible_paths>>

\* where the relative filename lies under entry k of possible_paths
Under(k) == Resolve(Join(Resolve(Entries[k]), filename))

Holds(k) == Entries[k].t # "none" /\ Exists(Under(k))

\* C8: a relative filename is resolved against the first entry of
\* possible_paths, in list order and skipping None, under which the file
\* exists, even when later entries hold it too; the call raises only when no
\* entry holds it.  An absolute filename is returned as it is if it exists and
\* raises otherwise, whatever possible_paths is.
C8_FirstMatchWins ==
    /\ (resolve_pc \in {"returned", "raised"} /\ ~filename.abs) =>
          IF \E k \in 1..Len(Entries) : Holds(k)
          THEN /\ resolve_pc = "returned"
               /\ \E k \in 1..Len(Entries) :
                     /\ Holds(k)
                     /\ \A j \in 1..(k - 1) : ~Holds(j)
                     /\ resolve_result = Under(k)
          ELSE resolve_pc = "raised"
    /\ (resolve_pc \in {"returned", "raised"} /\ filename.abs) =>
          IF Exists(filename)
          THEN resolve_pc = "returned" /\ resolve_result = filename
          ELSE resolve_pc = "raised"
    /\ resolve_pc = "call" => resolve_result = NoneVal

\* two entries hold the file at different places and the first one was returned
C8_Witness ==
    /\ resolve_pc = "returned"
    /\ ~filename.abs
    /\ Len(Entries) = 2
    /\ Holds(1)
    /\ Holds(2)
    /\ Under(1) # Under(2)
    /\ resolve_result = Under(1)

(***************************************************************************)
(* bom2tsv and remove_links                                                *)
(*                                                                         *)
(* inp is the list object of the caller: it lives on between the calls.    *)
(***************************************************************************)
IsA(c) == c \in {"a", "A"}

\* the regular expression <[aA] [^>]*>([^<]*)</[aA]> matches a prefix of s
LinkAtHead(s) ==
    /\ Len(s) >= 8
    /\ s[1] = "<" /\ IsA(s[2]) /\ s[3] = " "
    /\ \E g \in 4..Len(s) :
          /\ s[g] = ">"
          /\ \A j \in 4..(g - 1) : s[j] # ">"
          /\ \E l \in (g + 1)..(Len(s) - 3) :
                /\ s[l] = "<"
                /\ \A j \in (g + 1)..(l - 1) : s[j] # "<"
                /\ s[l + 1] = "/" /\ IsA(s[l + 2]) /\ s[l + 3] = ">"

TagEnd(s) == CHOOSE g \in 4..Len(s) : s[g] = ">" /\ \A j \in 4..(g - 1) : s[j] # ">"

TextEnd(s) == CHOOSE l \in (TagEnd(s) + 1)..Len(s) :
                  s[l] = "<" /\ \A j \in (TagEnd(s) + 1)..(l - 1) : s[j] # "<"

\* re.sub(..., r"\1", s): every link, from the left, is replaced by its text
RECURSIVE SubLinks(_)
SubLinks(s) ==
    IF s = <<>> THEN <<>>
    ELSE IF LinkAtHead(s)
    THEN SubSeq(s, TagEnd(s) + 1, TextEnd(s) - 1)
         \o SubLinks(SubSeq(s, TextEnd(s) + 4, Len(s)))
    ELSE <<Head(s)>> \o SubLinks(Tail(s))

remove_links(item) == IF item.t = "str" THEN StrVal(SubLinks(item.s)) ELSE item

\* sep.join(strs)
RECURSIVE JoinStr(_, _)
JoinStr(sep, strs) ==
    IF strs = <<>> THEN <<>>
    ELSE IF Len(strs) = 1 THEN strs[1]
    ELSE strs[1] \o sep \o JoinStr(sep, Tail(strs))

\* one row of the loop: None replaced by "", links removed, str(), joined by tabs
RowLine(row) ==
    LET cleaned == [k \in 1..Len(row) |-> IF row[k].t = "none" THEN StrVal(<<>>) ELSE row[k]]
    IN  JoinStr(<<"\t">>, [k \in 1..Len(row) |-> PyStr(remove_links(cleaned[k]))]) \o <<"\n">>

RECURSIVE RowLines(_)
RowLines(rows) == IF rows = <<>> THEN <<>> ELSE RowLine(Head(rows)) \o RowLines(Tail(rows))

\* a call that would build a new list instead of inserting into the caller's
Bom2tsvCopy(header) ==
    /\ Len(headers_passed) < MaxCalls
    /\ tsv' = RowLines(IF header.t = "none" THEN inp ELSE <<header.items>> \o inp)
    /\ headers_passed' = Append(headers_passed, header)
    /\ UNCHANGED <<inp, original_rows>>
    /\ UNCHANGED notBom

Bom2tsv(header) ==
    /\ Len(headers_passed) < MaxCalls
    /\ inp' = IF header.t = "none" THEN inp ELSE <<header.items>> \o inp
    /\ tsv' = RowLines(inp')
    /\ headers_passed' = Append(headers_passed, header)
    /\ UNCHANGED original_rows
    /\ UNCHANGED notBom

Link == <<"<", "a", " ", "h", ">", "P", "N", "<", "/", "a", ">">>

Cells == {NoneVal, IntVal(1), StrVal(<<"x">>), StrVal(Link)}

Headers == {NoneVal, ListVal(<<StrVal(<<"I", "d">>), StrVal(<<"Q", "t", "y">>)>>)}

Rows == UNION {[1..k -> Cells] : k \in 0..MaxCols}

BomInit ==
    /\ inp \in UNION {[1..k -> Rows] : k \in 0..MaxRows}
    /\ original_rows = inp
    /\ headers_passed = <<>>
    /\ tsv = <<>>

BomNext == \E header \in Headers : Bom2tsv(header)

(***************************************************************************)
(* Properties of bom2tsv                                                   *)
(***************************************************************************)
\* s cut at every c: the pieces between them
RECURSIVE Pieces(_, _)
Pieces(s, c) ==
    IF ~Contains(s, c) THEN <<s>>
    ELSE <<SubSeq(s, 1, FirstIndex(s, c) - 1)>>
         \o Pieces(SubSeq(s, FirstIndex(s, c) + 1, Len(s)), c)

\* the lines of the last output, each cut into its fields
OutputLines == Pieces(tsv, "\n")

Fields(k) == Pieces(OutputLines[k], "\t")

RECURSIVE HeaderRows(_)
HeaderRows(hs) ==
    IF hs = <<>> THEN <<>>
    ELSE IF Head(hs).t = "none" THEN HeaderRows(Tail(hs))
    ELSE <<Head(hs).items>> \o HeaderRows(Tail(hs))

CellText(c) == IF c.t = "none" THEN <<>>
               ELSE IF c.t = "int" THEN IntToStr(c.n)
               ELSE IF c.s = Link THEN <<"P", "N">>
               ELSE c.s

\* the output has one newline-terminated line of tab-separated cells per row
OneLinePerRow(rows) ==
    /\ Len(OutputLines) = Len(rows) + 1
    /\ OutputLines[Len(OutputLines)] = <<>>
    /\ \A k \in 1..Len(rows) :
          IF rows[k] = <<>> THEN OutputLines[k] = <<>>
          ELSE /\ Len(Fields(k)) = Len(rows[k])
               /\ \A j \in 1..Len(rows[k]) : Fields(k)[j] = CellText(rows[k][j])

LastHeader == headers_passed'[Len(headers_passed')]

\* C9: a call with a header inserts it as row 0 of the caller's list, which is
\* one row longer after each such call, so k such calls give k header lines
\* followed by the original rows; a call with header None leaves the list as
\* it is; every call emits one tab-separated, newline-terminated line per row,
\* None cells written as empty strings.
C9_HeaderInserted ==
    /\ [][IF LastHeader.t = "none" THEN inp' = inp
          ELSE /\ inp' = <<LastHeader.items>> \o inp
               /\ Len(inp') = Len(inp) + 1]_bomVars
    /\ [](inp = Reversed(HeaderRows(headers_passed)) \o original_rows)
    /\ [](headers_passed # <<>> =>
            OneLinePerRow(Reversed(HeaderRows(headers_passed)) \o original_rows))

\* two calls with the same header have given two header lines before the rows
C9_Witness ==
    /\ Len(headers_passed) = 2
    /\ headers_passed[1].t = "list"
    /\ headers_passed[2] = headers_passed[1]
    /\ Len(original_rows) = 1
    /\ Len(inp) = 3
    /\ Len(OutputLines) = 4
    /\ OutputLines[1] = OutputLines[2]
    /\ OutputLines[1] = <<"I", "d", "\t", "Q", "t", "y">>

(***************************************************************************)
(* awg_equiv_table, mm2_equiv_table, awg_equiv, mm2_equiv                  *)
(*                                                                         *)
(* A dict is the sequence of its <<key, value>> items in insertion order,  *)
(* no key twice.                                                           *)
(***************************************************************************)
HasKey(d, k) == \E i \in 1..Len(d) : d[i][1] = k

\* d[k] = v
SetItem(d, k, v) ==
    IF HasKey(d, k) THEN [i \in 1..Len(d) |-> IF d[i][1] = k THEN <<k, v>> ELSE d[i]]
    ELSE Append(d, <<k, v>>)

\* the dict built from items given in order: a later item replaces an earlier
\* one with the same key
RECURSIVE DictOf(_, _)
DictOf(d, its) == IF its = <<>> THEN d
                  ELSE DictOf(SetItem(d, Head(its)[1], Head(its)[2]), Tail(its))

\* d.get(k, default)
Get(d, k, default) ==
    IF HasKey(d, k) THEN d[CHOOSE i \in 1..Len(d) : d[i][1] = k][2] ELSE default

AwgItems ==
    <<<<<<"0", ".", "0", "9">>, <<"2", "8">>>>,
      <<<<"0", ".", "1", "4">>, <<"2", "6">>>>,
      <<<<"0", ".", "2", "5">>, <<"2", "4">>>>,
      <<<<"0", ".", "3", "4">>, <<"2", "2">>>>,
      <<<<"0", ".", "5">>, <<"2", "1">>>>,
      <<<<"0", ".", "7", "5">>, <<"2", "0">>>>,
      <<<<"1">>, <<"1", "8">>>>,
      <<<<"1", ".", "5">>, <<"1", "6">>>>,
      <<<<"2", ".", "5">>, <<"1", "4">>>>,
      <<<<"4">>, <<"1", "2">>>>,
      <<<<"6">>, <<"1", "0">>>>,
      <<<<"1", "0">>, <<"8">>>>,
      <<<<"1", "6">>, <<"6">>>>,
      <<<<"2", "5">>, <<"4">>>>,
      <<<<"3", "5">>, <<"2">>>>,
      <<<<"5", "0">>, <<"1">>>>>>

awg_equiv_table_shared_gauge ==
    DictOf(<<>>,
    <<<<<<"0", ".", "0", "9">>, <<"2", "8">>>>,
      <<<<"0", ".", "1", "4">>, <<"2", "6">>>>,
      <<<<"0", ".", "2", "5">>, <<"2", "4">>>>,
      <<<<"0", ".", "3", "4">>, <<"2", "2">>>>,
      <<<<"0", ".", "5">>, <<"2", "0">>>>,
      <<<<"0", ".", "7", "5">>, <<"2", "0">>>>,
      <<<<"1">>, <<"1", "8">>>>,
      <<<<"1", ".", "5">>, <<"1", "6">>>>,
      <<<<"2", ".", "5">>, <<"1", "4">>>>,
      <<<<"4">>, <<"1", "2">>>>,
      <<<<"6">>, <<"1", "0">>>>,
      <<<<"1", "0">>, <<"8">>>>,
      <<<<"1", "6">>, <<"6">>>>,
      <<<<"2", "5">>, <<"4">>>>,
      <<<<"3", "5">>, <<"2">>>>,
      <<<<"5", "0">>, <<"1">>>>>>)

awg_equiv_table == DictOf(<<>>, AwgItems)

\* {v: k for k, v in awg_equiv_table.items()}
mm2_equiv_table ==
    DictOf(<<>>, [i \in 1..Len(awg_equiv_table) |->
                    <<awg_equiv_table[i][2], awg_equiv_table[i][1]>>])

Unknown == StrVal(<<"U", "n", "k", "n", "o", "w", "n">>)

awg_equiv(mm2) ==
    LET k == PyStr(mm2)
    IN  IF HasKey(awg_equiv_table, k) THEN StrVal(Get(awg_equiv_table, k, <<>>)) ELSE Unknown

mm2_equiv(awg) ==
    LET k == PyStr(awg)
    IN  IF HasKey(mm2_equiv_table, k) THEN StrVal(Get(mm2_equiv_table, k, <<>>)) ELSE Unknown

\* the argument of the next call: the caller's value, or the last result
NextArg == IF chain = <<>> THEN gauge_in ELSE chain[Len(chain)]

AwgEquivCall ==
    /\ Len(chain) < MaxChain
    /\ chain' = Append(chain, awg_equiv(NextArg))
    /\ applied' = Append(applied, "awg_equiv")
    /\ UNCHANGED gauge_in
    /\ UNCHANGED notAwg

Mm2EquivCall ==
    /\ Len(chain) < MaxChain
    /\ chain' = Append(chain, mm2_equiv(NextArg))
    /\ applied' = Append(applied, "mm2_equiv")
    /\ UNCHANGED gauge_in
    /\ UNCHANGED notAwg

GaugeInputs ==
    {StrVal(AwgItems[i][1]) : i \in 1..Len(AwgItems)}
    \cup {StrVal(AwgItems[i][2]) : i \in 1..Len(AwgItems)}
    \cup {StrVal(<<>>), StrVal(<<"3">>), StrVal(<<"1", ".", "0">>), Unknown}
    \cup {IntVal(n) : n \in 0..MaxNum}
    \cup {FloatVal(5, 1), FloatVal(1, 0), FloatVal(25, 1), FloatVal(9, 2)}

AwgInit ==
    /\ gauge_in \in GaugeInputs
    /\ chain = <<>>
    /\ applied = <<>>

AwgNext == AwgEquivCall \/ Mm2EquivCall

(***************************************************************************)
(* Properties of the lookup tables                                         *)
(***************************************************************************)
Mm2Keys == {AwgItems[i][1] : i \in 1..Len(AwgItems)}

AwgKeys == {AwgItems[i][2] : i \in 1..Len(AwgItems)}

ArgOf(k) == IF k = 1 THEN gauge_in ELSE chain[k - 1]

\* C10: the two tables are inverses of each other: mm2_equiv(awg_equiv(m)) = m
\* for every cross-section key m and awg_equiv(mm2_equiv(g)) = g for every AWG
\* key g, both tables have 16 entries, and a value that is no key of the table
\* asked gives "Unknown".
C10_TablesInverse ==
    /\ Len(awg_equiv_table) = 16
    /\ Len(mm2_equiv_table) = 16
    /\ (Len(applied) >= 2 /\ applied[1] = "awg_equiv" /\ applied[2] = "mm2_equiv"
        /\ gauge_in.t = "str" /\ gauge_in.s \in Mm2Keys) => chain[2] = gauge_in
    /\ (Len(applied) >= 2 /\ applied[1] = "mm2_equiv" /\ applied[2] = "awg_equiv"
        /\ gauge_in.t = "str" /\ gauge_in.s \in AwgKeys) => chain[2] = gauge_in
    /\ \A k \in 1..Len(applied) :
          /\ (applied[k] = "awg_equiv" /\ PyStr(ArgOf(k)) \notin Mm2Keys) => chain[k] = Unknown
          /\ (applied[k] = "mm2_equiv" /\ PyStr(ArgOf(k)) \notin AwgKeys) => chain[k] = Unknown

\* "0.5" went to AWG 21 and came back as "0.5"
C10_Witness ==
    /\ applied = <<"awg_equiv", "mm2_equiv">>
    /\ gauge_in = StrVal(<<"0", ".", "5">>)
    /\ chain = <<StrVal(<<"2", "1">>), gauge_in>>

(***************************************************************************)
(* The specifications: one per function, the others at rest.               *)
(***************************************************************************)
ExpandIdle ==
    /\ yaml_data = NoneVal /\ items = <<>> /\ idx = 0 /\ output = <<>>
    /\ expand_pc = "idle" /\ expand_result = NoneVal /\ first_result = NoneVal /\ runs = 0

ParseIdle ==
    /\ pnu_inp = NoneVal /\ default_unit = NoneVal /\ pnu_pc = "idle" /\ pnu_result = NoneVal

ResolveIdle ==
    /\ fs = {} /\ filename = NoneVal /\ possible_paths = NoneVal /\ candidates = <<>>
    /\ probe = 0 /\ resolve_pc = "idle" /\ resolve_result = NoneVal

BomIdle ==
    /\ inp = <<>> /\ original_rows = <<>> /\ headers_passed = <<>> /\ tsv = <<>>

AwgIdle ==
    /\ gauge_in = NoneVal /\ chain = <<>> /\ applied = <<>>

InitExpand == ExpandInit /\ ParseIdle /\ ResolveIdle /\ BomIdle /\ AwgIdle

SpecExpand == InitExpand /\ [][ExpandNext]_vars

InitParse == ParseInit /\ ExpandIdle /\ ResolveIdle /\ BomIdle /\ AwgIdle

SpecParse == InitParse /\ [][ParseNext]_vars

InitResolve == ResolveInit /\ ExpandIdle /\ ParseIdle /\ BomIdle /\ AwgIdle

SpecResolve == InitResolve /\ [][ResolveNext]_vars

InitBom == BomInit /\ ExpandIdle /\ ParseIdle /\ ResolveIdle /\ AwgIdle

SpecBom == InitBom /\ [][BomNext]_vars

InitAwg == AwgInit /\ ExpandIdle /\ ParseIdle /\ ResolveIdle /\ BomIdle

SpecAwg == InitAwg /\ [][AwgNext]_vars

====
